---- MODULE Spec2Model ----
(***************************************************************************)
(* A model of the page/grading subsystem of course/page.py: the            *)
(* AnswerFeedback record, the text-answer matchers, the text, choice,      *)
(* code and (deprecated) symbolic question pages, and the remote           *)
(* execution client used by the code question.                             *)
(*                                                                         *)
(* Conventions.  A Python string is a sequence of atoms (short TLA+        *)
(* strings: single characters, or whole words such as a matcher prefix).   *)
(* An optional value (a Python value that may be None, or an attribute     *)
(* that may be missing) is None == <<>> or Some(x) == <<x>>.  A            *)
(* correctness is an integer number of 1/Unit, so 1.0 is Unit.             *)
(***************************************************************************)
EXTENDS Integers, Sequences, FiniteSets, TLC

\* ------------------------------------------------------------ bounds

\* The integer that stands for correctness 1.0 (the model's granularity).
Unit == 10
\* The largest number of answers (matchers) of a text or symbolic question.
MaxAnswers == 2
\* The largest number of choices of a choice question.
MaxChoices == 3
\* The largest number of non-empty packets the execution service sends.
MaxPackets == 2

\* ------------------------------------------------------------ values

None == <<>>
Some(x) == <<x>>
Val(o) == o[1]

RECURSIVE Flatten(_)
\* "".join(parts) of a sequence of strings
Flatten(parts) ==
    IF parts = <<>> THEN <<>> ELSE Head(parts) \o Flatten(Tail(parts))

\* the code points of the characters the model's strings are made of
CharCode(a) ==
    CASE a = " " -> 32
      [] a = "+" -> 43
      [] a = "." -> 46
      [] a = "(" -> 40
      [] a = "<" -> 60
      [] a = "A" -> 65
      [] a = "C" -> 67
      [] a = "a" -> 97
      [] a = "c" -> 99
      [] a = "t" -> 116
      [] a = "u" -> 117
      [] OTHER -> 0

\* str.lower, character by character
LowerChar(a) == IF a = "C" THEN "c" ELSE IF a = "A" THEN "a" ELSE a
lower(s) == [i \in 1..Len(s) |-> LowerChar(s[i])]

RECURSIVE strip(_)
\* str.strip: leading and trailing blanks removed
strip(s) ==
    IF s # <<>> /\ Head(s) = " " THEN strip(Tail(s))
    ELSE IF s # <<>> /\ s[Len(s)] = " " THEN strip(SubSeq(s, 1, Len(s) - 1))
    ELSE s

RECURSIVE StrLess(_, _)
\* s < t for two Python strings (lexicographic by code point)
StrLess(s, t) ==
    IF t = <<>> THEN FALSE
    ELSE IF s = <<>> THEN TRUE
    ELSE IF CharCode(Head(s)) # CharCode(Head(t))
         THEN CharCode(Head(s)) < CharCode(Head(t))
    ELSE StrLess(Tail(s), Tail(t))

\* a < b for two optional strings: Python 2 orders None below every string
OptStrLess(a, b) ==
    IF b = None THEN FALSE
    ELSE IF a = None THEN TRUE
    ELSE StrLess(Val(a), Val(b))

\* ------------------------------------------------------------ answer feedback

NormUnavailable == [t |-> "unavailable", s |-> <<>>]
NormNone == [t |-> "none", s |-> <<>>]
NormText(s) == [t |-> "text", s |-> s]

\* "%.1f" % (100*correctness) for a correctness of c/Unit
Percent(c) ==
    LET tenths == ((2000 * (IF c < 0 THEN -c ELSE c)) \div Unit + 1) \div 2
    IN  (IF c < 0 THEN "-" ELSE "") \o ToString(tenths \div 10)
            \o "." \o ToString(tenths % 10)

NOT_CORRECT == "Your answer is not correct."
CORRECT == "Your answer is correct."
MOSTLY_CORRECT == "Your answer is mostly correct."
UNDETERMINED == "The correctness of your answer could not be determined."
SOMEWHAT_CORRECT == "Your answer is somewhat correct."

\* get_auto_feedback, mutated: one half already counts as mostly correct
get_auto_feedback_half(correctness) ==
    IF correctness # None /\ Val(correctness) = 0
    THEN <<NOT_CORRECT>>
    ELSE IF correctness # None /\ Val(correctness) = Unit
    THEN <<CORRECT>>
    ELSE IF correctness # None /\ 2 * Val(correctness) >= Unit
    THEN <<MOSTLY_CORRECT, " (", Percent(Val(correctness)), " %)">>
    ELSE IF correctness = None
    THEN <<UNDETERMINED>>
    ELSE <<SOMEWHAT_CORRECT, " (", Percent(Val(correctness)), " %)">>

\* get_auto_feedback: the branches in the order of the code.  With None,
\* Python 2 evaluates None == 0, None == 1 and None > 0.5 to False.
get_auto_feedback(correctness) ==
    IF correctness # None /\ Val(correctness) = 0
    THEN <<NOT_CORRECT>>
    ELSE IF correctness # None /\ Val(correctness) = Unit
    THEN <<CORRECT>>
    ELSE IF correctness # None /\ 2 * Val(correctness) > Unit
    THEN <<MOSTLY_CORRECT, " (", Percent(Val(correctness)), " %)">>
    ELSE IF correctness = None
    THEN <<UNDETERMINED>>
    ELSE <<SOMEWHAT_CORRECT, " (", Percent(Val(correctness)), " %)">>

\* the outcome of a call that raised: no AnswerFeedback exists
Raise(exc) ==
    [kind |-> "raise", exc |-> exc, correctness |-> None,
     correct_answer |-> None, feedback |-> <<>>,
     normalized_answer |-> NormUnavailable]

\* AnswerFeedback.__init__, mutated: the range check is dropped
AnswerFeedback_nocheck(correctness, correct_answer, feedback, normalized_answer) ==
    [kind |-> "feedback", exc |-> "",
     correctness |-> correctness,
     correct_answer |-> correct_answer,
     feedback |-> IF feedback = None
                  THEN get_auto_feedback(correctness) ELSE Val(feedback),
     normalized_answer |-> normalized_answer]

\* AnswerFeedback.__init__: feedback is an optional string
AnswerFeedback(correctness, correct_answer, feedback, normalized_answer) ==
    IF correctness # None
       /\ (Val(correctness) < 0 \/ Val(correctness) > Unit)
    THEN Raise("ValueError")
    ELSE [kind |-> "feedback", exc |-> "",
          correctness |-> correctness,
          correct_answer |-> correct_answer,
          feedback |-> IF feedback = None
                       THEN get_auto_feedback(correctness) ELSE Val(feedback),
          normalized_answer |-> normalized_answer]

NO_ANSWER == "No answer provided."

\* ------------------------------------------------------------ matchers

\* the exception a constructor or a parser raises, or the value it returns
Ok(v) == [ok |-> TRUE, v |-> Some(v), exc |-> "", msg |-> <<>>]
Err(exc, msg) == [ok |-> FALSE, v |-> None, exc |-> exc, msg |-> msg]

Range(f) == {f[i] : i \in DOMAIN f}

\* the atoms that stand for punctuation; every other atom is made of
\* characters of [a-zA-Z0-9_]
Punctuation == {"<", ">", ":", ".", "+", "(", " ", "~CORRECT~"}
IsWord(a) == a \notin Punctuation

\* index of the first occurrence of atom a in s, or 0
FirstIndex(s, a) ==
    IF \E i \in 1..Len(s) : s[i] = a
    THEN CHOOSE i \in 1..Len(s) : s[i] = a /\ \A j \in 1..(i-1) : s[j] # a
    ELSE 0

\* MATCHER_RE = ^\<([a-zA-Z0-9_:.]+)\>(.*)$ : the groups, or None
MATCHER_RE(s) ==
    LET close == FirstIndex(s, ">")
    IN  IF Len(s) >= 1 /\ s[1] = "<" /\ close > 2
           /\ \A i \in 2..(close-1) : IsWord(s[i]) \/ s[i] \in {":", "."}
        THEN Some(<<SubSeq(s, 2, close-1), SubSeq(s, close+1, Len(s))>>)
        ELSE None

\* MATCHER_RE_2 = ^([a-zA-Z0-9_.]+):(.*)$ : the groups, or None
MATCHER_RE_2(s) ==
    LET colon == FirstIndex(s, ":")
    IN  IF colon > 1
           /\ \A i \in 1..(colon-1) : IsWord(s[i]) \/ s[i] = "."
        THEN Some(<<SubSeq(s, 1, colon-1), SubSeq(s, colon+1, Len(s))>>)
        ELSE None

\* TEXT_ANSWER_MATCHER_CLASSES, in the order of the list
TEXT_ANSWER_MATCHER_CLASSES ==
    <<"case_sens_plain", "plain", "regex", "case_sens_regex", "sym_expr">>

\* is_case_sensitive, mutated: the symbolic matcher counts as
\* case-insensitive
is_case_sensitive_nosym(prefix) ==
    prefix \in {"case_sens_plain", "case_sens_regex"}

\* is_case_sensitive of the matcher class with this prefix
is_case_sensitive(prefix) ==
    prefix \in {"case_sens_plain", "case_sens_regex", "sym_expr"}

\* re.compile(pattern) succeeds.  The regular expressions of the model are
\* made of literal characters and "."; "(" stands for an unbalanced group.
RegexCompiles(pattern) == \A i \in 1..Len(pattern) : pattern[i] # "("

\* pattern.match(s): anchored at the start, "." matches any character
RegexMatch(pattern, s, ignorecase) ==
    /\ Len(s) >= Len(pattern)
    /\ \A i \in 1..Len(pattern) :
          \/ pattern[i] = "."
          \/ IF ignorecase THEN LowerChar(pattern[i]) = LowerChar(s[i])
                           ELSE pattern[i] = s[i]

\* parse_sympy succeeds: the expressions of the model are sums of symbols,
\* identifiers separated by single "+" (blanks around them are skipped)
SympyParses(text) ==
    LET s == strip(text) IN
    /\ Len(s) >= 1
    /\ \A i \in 1..Len(s) : IsWord(s[i]) \/ s[i] = "+"
    /\ s[1] # "+" /\ s[Len(s)] # "+"
    /\ \A i \in 1..(Len(s)-1) : ~(s[i] = "+" /\ s[i+1] = "+")

RECURSIVE SympyTerms(_)
\* parse_sympy(s): the sequence of the sum's symbols
SympyTerms(text) ==
    LET s == strip(text)
        plus == FirstIndex(s, "+")
    IN  IF plus = 0 THEN <<s>>
        ELSE <<SubSeq(s, 1, plus-1)>> \o SympyTerms(SubSeq(s, plus+1, Len(s)))

\* simplify(a - b) == 0 for two sums of symbols: the same symbols, each as
\* many times
SympyEqual(a, b) ==
    LET ta == SympyTerms(a)
        tb == SympyTerms(b)
        Count(t, x) == Cardinality({i \in 1..Len(t) : t[i] = x})
    IN  \A x \in Range(ta) \cup Range(tb) : Count(ta, x) = Count(tb, x)

\* matcher_class(location, pattern): the constructor of each matcher class
MakeMatcher(prefix, location, pattern) ==
    IF prefix \in {"regex", "case_sens_regex"} /\ ~RegexCompiles(pattern)
    THEN Err("ValidationError",
             location \o <<": regex '">> \o pattern \o <<"' did not compile">>)
    ELSE IF prefix = "sym_expr" /\ ~SympyParses(pattern)
    THEN Err("ValidationError", location \o <<": ", "ParseError">>)
    ELSE Ok([prefix |-> prefix, pattern |-> pattern])

\* matcher.validate(s): TRUE when it raises forms.ValidationError
MatcherValidateRaises(m, s) == m.prefix = "sym_expr" /\ ~SympyParses(s)

\* matcher.grade(s), mutated: the plain matcher lowers the answer only
MatcherGrade_halffold(m, s) ==
    CASE m.prefix = "case_sens_plain" ->
            IF m.pattern = s THEN 1 ELSE 0
      [] m.prefix = "plain" ->
            IF m.pattern = lower(s) THEN 1 ELSE 0
      [] m.prefix = "regex" ->
            IF RegexMatch(m.pattern, s, TRUE) THEN 1 ELSE 0
      [] m.prefix = "case_sens_regex" ->
            IF RegexMatch(m.pattern, s, FALSE) THEN 1 ELSE 0
      [] m.prefix = "sym_expr" ->
            IF SympyEqual(s, m.pattern) THEN 1 ELSE 0

\* matcher.grade(s)
MatcherGrade(m, s) ==
    CASE m.prefix = "case_sens_plain" ->
            IF m.pattern = s THEN 1 ELSE 0
      [] m.prefix = "plain" ->
            IF lower(m.pattern) = lower(s) THEN 1 ELSE 0
      [] m.prefix = "regex" ->
            IF RegexMatch(m.pattern, s, TRUE) THEN 1 ELSE 0
      [] m.prefix = "case_sens_regex" ->
            IF RegexMatch(m.pattern, s, FALSE) THEN 1 ELSE 0
      [] m.prefix = "sym_expr" ->
            IF SympyEqual(s, m.pattern) THEN 1 ELSE 0

\* matcher.correct_answer_text(): an optional string
MatcherCorrectAnswerText(m) ==
    IF m.prefix \in {"regex", "case_sens_regex"} THEN None ELSE Some(m.pattern)

\* parse_matcher, mutated: the deprecated form is accepted without a
\* warning
parse_matcher_silent(location, answer) ==
    LET m1 == MATCHER_RE(answer)
        m2 == MATCHER_RE_2(answer)
        groups == IF m1 # None THEN m1 ELSE m2
        warned == FALSE
    IN  IF groups = None
        THEN [r |-> Err("ValidationError",
                        location \o <<": does not specify match type">>),
              warned |-> FALSE]
        ELSE LET matcher_prefix == Val(groups)[1]
                 pattern == Val(groups)[2]
             IN  IF \E i \in 1..Len(TEXT_ANSWER_MATCHER_CLASSES) :
                        <<TEXT_ANSWER_MATCHER_CLASSES[i]>> = matcher_prefix
                 THEN [r |-> MakeMatcher(matcher_prefix[1], location, pattern),
                       warned |-> warned]
                 ELSE [r |-> Err("ValidationError",
                                 location \o <<": unknown match type '">>
                                     \o matcher_prefix \o <<"'">>),
                       warned |-> warned]

\* parse_matcher(vctx, location, answer): the matcher or the error, and
\* whether a warning was added to vctx
parse_matcher(location, answer) ==
    LET m1 == MATCHER_RE(answer)
        m2 == MATCHER_RE_2(answer)
        groups == IF m1 # None THEN m1 ELSE m2
        warned == m1 = None /\ m2 # None
    IN  IF groups = None
        THEN [r |-> Err("ValidationError",
                        location \o <<": does not specify match type">>),
              warned |-> FALSE]
        ELSE LET matcher_prefix == Val(groups)[1]
                 pattern == Val(groups)[2]
             IN  IF \E i \in 1..Len(TEXT_ANSWER_MATCHER_CLASSES) :
                        <<TEXT_ANSWER_MATCHER_CLASSES[i]>> = matcher_prefix
                 THEN [r |-> MakeMatcher(matcher_prefix[1], location, pattern),
                       warned |-> warned]
                 ELSE [r |-> Err("ValidationError",
                                 location \o <<": unknown match type '">>
                                     \o matcher_prefix \o <<"'">>),
                       warned |-> warned]

\* ------------------------------------------------------------ descriptors

\* the location string the content loader hands to a page constructor
LOCATION == "flows/quiz.yml, page 1"

Strict(kind, pattern) == <<"<", kind, ">">> \o pattern
Deprecated(kind, pattern) == <<kind, ":">> \o pattern

\* the answer strings a text question's descriptor is drawn from
AnswerSpecs ==
    { Strict("plain", <<"c", "a", "t">>),
      Strict("plain", <<"C", "a", "t">>),
      Strict("plain", <<>>),
      Strict("case_sens_plain", <<"C", "a", "t">>),
      Strict("regex", <<"c", ".", "t">>),
      Strict("regex", <<"(">>),
      Strict("case_sens_regex", <<"C", ".">>),
      Strict("sym_expr", <<"c", "+", "a">>),
      Strict("sym_expr", <<"c", "+">>),
      Strict("bogus", <<"c", "a", "t">>),
      Deprecated("plain", <<"c", "a", "t">>),
      Deprecated("regex", <<"c", ".", "t">>),
      Deprecated("bogus", <<"c", "a", "t">>),
      <<"c", "a", "t">> }

\* the answers a symbolic question's descriptor is drawn from
SymbolicAnswers == { <<"c", "+", "a">>, <<"c">>, <<"c", "+">> }

CORRECT_TAG == "~CORRECT~"

\* the choice strings a choice question's descriptor is drawn from
ChoiceStrings == { <<CORRECT_TAG, "a">>, <<"c">>, <<CORRECT_TAG, "t">> }

\* the code a code question's descriptor and its learners are drawn from
CodeStrings == { <<"c">>, <<"<", "t">> }

SeqsUpTo(S, n) == UNION { [1..k -> S] : k \in 0..n }

TextDescs ==
    { [type |-> "TextQuestion", answers |-> a, choices |-> <<>>,
       shuffle |-> None, correct_code |-> None]
      : a \in SeqsUpTo(AnswerSpecs, MaxAnswers) }

SymbolicDescs ==
    { [type |-> "SymbolicQuestion", answers |-> a, choices |-> <<>>,
       shuffle |-> None, correct_code |-> None]
      : a \in SeqsUpTo(SymbolicAnswers, MaxAnswers) }

ChoiceDescs ==
    { [type |-> "ChoiceQuestion", answers |-> <<>>, choices |-> c,
       shuffle |-> sh, correct_code |-> None]
      : c \in SeqsUpTo(ChoiceStrings, MaxChoices),
        sh \in {None, Some(FALSE), Some(TRUE)} }

CodeDescs ==
    { [type |-> "PythonCodeQuestion", answers |-> <<>>, choices |-> <<>>,
       shuffle |-> None, correct_code |-> cc]
      : cc \in {None} \cup {Some(c) : c \in CodeStrings} }

\* ------------------------------------------------------------ constructors

Warning(location, message) == [location |-> location, message |-> message]

NoPage == [status |-> "new", matchers |-> <<>>, shuffle |-> FALSE,
           exc |-> "", msg |-> <<>>]
ValidPage(matchers, shuffle) ==
    [status |-> "valid", matchers |-> matchers, shuffle |-> shuffle,
     exc |-> "", msg |-> <<>>]
InvalidPage(exc, msg) ==
    [status |-> "invalid", matchers |-> <<>>, shuffle |-> FALSE,
     exc |-> exc, msg |-> msg]
Constructed(p, warnings) == [page |-> p, warnings |-> warnings]

RECURSIVE ParseMatchers(_, _, _, _)
\* the list comprehension of TextQuestion.__init__: parse_matcher on each
\* answer in turn; the first error ends it, the warnings added so far stay
ParseMatchers(answers, i, matchers, warnings) ==
    IF i > Len(answers)
    THEN [ok |-> TRUE, matchers |-> matchers, warnings |-> warnings,
          exc |-> "", msg |-> <<>>]
    ELSE LET location == <<LOCATION, ", answer ", ToString(i)>>
             parsed == parse_matcher(location, answers[i])
             w == IF parsed.warned
                  THEN Append(warnings,
                          Warning(location,
                                  "uses deprecated 'matcher:answer' style"))
                  ELSE warnings
         IN  IF parsed.r.ok
             THEN ParseMatchers(answers, i + 1,
                                Append(matchers, Val(parsed.r.v)), w)
             ELSE [ok |-> FALSE, matchers |-> <<>>, warnings |-> w,
                   exc |-> parsed.r.exc, msg |-> parsed.r.msg]

\* TextQuestion.__init__
TextQuestionInit(page_desc) ==
    IF Len(page_desc.answers) = 0
    THEN Constructed(
            InvalidPage("ValidationError",
                <<LOCATION, ": at least one answer must be provided">>),
            <<>>)
    ELSE LET parsed == ParseMatchers(page_desc.answers, 1, <<>>, <<>>)
         IN  IF ~parsed.ok
             THEN Constructed(InvalidPage(parsed.exc, parsed.msg),
                              parsed.warnings)
             ELSE IF ~\E i \in 1..Len(parsed.matchers) :
                        MatcherCorrectAnswerText(parsed.matchers[i]) # None
             THEN Constructed(
                     InvalidPage("ValidationError",
                         <<"%s", ": no matcher is able to provide a plain-text ",
                           "correct answer">>),
                     parsed.warnings)
             ELSE Constructed(ValidPage(parsed.matchers, FALSE),
                              parsed.warnings)

\* s.startswith(CORRECT_TAG)
StartsWithTag(s) == Len(s) >= 1 /\ s[1] = CORRECT_TAG

\* ChoiceQuestion.__init__
ChoiceQuestionInit(page_desc) ==
    LET correct_choice_count ==
            Cardinality({i \in 1..Len(page_desc.choices) :
                            StartsWithTag(page_desc.choices[i])})
    IN  IF correct_choice_count < 1
        THEN Constructed(
                InvalidPage("ValidationError",
                    <<LOCATION, ": one or more correct answer(s) expected, ",
                      ToString(correct_choice_count), " found">>),
                <<>>)
        ELSE Constructed(
                ValidPage(<<>>, IF page_desc.shuffle = None THEN FALSE
                                ELSE Val(page_desc.shuffle)),
                <<>>)

\* PythonCodeQuestion.__init__
PythonCodeQuestionInit(page_desc) == Constructed(ValidPage(<<>>, FALSE), <<>>)

\* SymbolicQuestion.__init__
SymbolicQuestionInit(page_desc) ==
    LET w == <<Warning(<<LOCATION>>, "uses deprecated SymbolicQuestion")>>
    IN  IF \E i \in 1..Len(page_desc.answers) :
                ~SympyParses(page_desc.answers[i])
        THEN Constructed(
                InvalidPage("ValidationError", <<LOCATION, ": ", "ParseError">>),
                w)
        ELSE Constructed(ValidPage(<<>>, FALSE), w)

\* the page class the descriptor's type names, applied to the descriptor
PageInit(page_desc) ==
    CASE page_desc.type = "TextQuestion" -> TextQuestionInit(page_desc)
      [] page_desc.type = "ChoiceQuestion" -> ChoiceQuestionInit(page_desc)
      [] page_desc.type = "PythonCodeQuestion" ->
            PythonCodeQuestionInit(page_desc)
      [] page_desc.type = "SymbolicQuestion" -> SymbolicQuestionInit(page_desc)

\* ------------------------------------------------------------ text question

\* CA_PATTERN % text
CA_PATTERN(text) == <<"A correct answer is: '">> \o text \o <<"'.">>

\* a < b for two (score, correct answer text) tuples, as Python 2 orders them
TupleLess(a, b) == a[1] < b[1] \/ (a[1] = b[1] /\ OptStrLess(a[2], b[2]))

RECURSIVE PyMaxFrom(_, _, _)
PyMaxFrom(items, i, best) ==
    IF i > Len(items) THEN best
    ELSE PyMaxFrom(items, i + 1,
                   IF TupleLess(best, items[i]) THEN items[i] ELSE best)

\* max(items) of a non-empty sequence: the first of the greatest items
PyMax(items) == PyMaxFrom(items, 2, items[1])

\* the value unspec_correct_answer_text has after the loop of
\* TextQuestion.grade: the first matcher's text that is not None, else the
\* last matcher's
UnspecCorrectAnswerText(matchers) ==
    LET texts == [i \in 1..Len(matchers) |->
                     MatcherCorrectAnswerText(matchers[i])]
    IN  IF \E i \in 1..Len(texts) : texts[i] # None
        THEN texts[CHOOSE i \in 1..Len(texts) :
                      texts[i] # None /\ \A j \in 1..(i-1) : texts[j] = None]
        ELSE texts[Len(texts)]

\* TextQuestion.grade.  A matcher's score 0 or 1 is the correctness 0 or
\* Unit.
TextQuestionGrade(matchers, answer_data) ==
    LET unspec == UnspecCorrectAnswerText(matchers)
    IN  IF unspec = None \/ Val(unspec) = <<>>
        THEN Raise("AssertionError")
        ELSE IF answer_data = None
        THEN AnswerFeedback(Some(0), Some(CA_PATTERN(Val(unspec))),
                            Some(<<NO_ANSWER>>), NormUnavailable)
        ELSE LET answer == Val(answer_data).answer
             IN  IF \E i \in 1..Len(matchers) :
                        /\ matchers[i].prefix = "sym_expr"
                        /\ ~SympyParses(answer)
                 THEN Raise("ParseError")
                 ELSE LET best == PyMax([i \in 1..Len(matchers) |->
                                  <<MatcherGrade(matchers[i], answer),
                                    MatcherCorrectAnswerText(matchers[i])>>])
                          correct_answer_text ==
                              IF best[2] = None THEN unspec ELSE best[2]
                          normalized_answer ==
                              IF ~\E i \in 1..Len(matchers) :
                                     is_case_sensitive(matchers[i].prefix)
                              THEN lower(answer) ELSE answer
                      IN  AnswerFeedback(Some(best[1] * Unit),
                              Some(CA_PATTERN(Val(correct_answer_text))),
                              None, NormText(normalized_answer))

\* TextAnswerForm.clean on a bound form: the error it raises, or none.  The
\* answer field is required.
TextAnswerFormValid(matchers, answer) ==
    /\ answer # <<>>
    /\ \A i \in 1..Len(matchers) : ~MatcherValidateRaises(matchers[i], answer)

\* ------------------------------------------------------------ choice question

\* remove_prefix(CORRECT_TAG, s) of course.content
remove_prefix(s) == IF StartsWithTag(s) THEN Tail(s) ELSE s

\* markup_to_html of course.content (the markup renderer), on a
\* one-paragraph text
markup_to_html(s) == <<"<p>">> \o s \o <<"</p>">>

\* ChoiceQuestion.process_choice_string
process_choice_string(s) == markup_to_html(remove_prefix(s))

\* the permutations of 0..n-1, as sequences
IndexPermutations(n) ==
    { p \in [1..n -> 0..(n-1)] : \A i, j \in 1..n : p[i] = p[j] => i = j }

\* ChoiceQuestion.make_page_data, mutated: the shuffle draws each entry
\* independently, so an index may repeat
MakePageData_repeat(page_desc, shuffle) ==
    IF page_desc.type # "ChoiceQuestion"
    THEN { [permutation |-> None] }
    ELSE LET n == Len(page_desc.choices)
         IN  IF shuffle
             THEN { [permutation |-> Some(p)] : p \in [1..n -> 0..(n-1)] }
             ELSE { [permutation |-> Some([i \in 1..n |-> i - 1])] }

\* make_page_data: the page data it may return.  PageBase returns {};
\* ChoiceQuestion returns range(n), shuffled by random.shuffle when
\* self.shuffle is set.
MakePageData(page_desc, shuffle) ==
    IF page_desc.type # "ChoiceQuestion"
    THEN { [permutation |-> None] }
    ELSE LET n == Len(page_desc.choices)
         IN  IF shuffle
             THEN { [permutation |-> Some(p)] : p \in IndexPermutations(n) }
             ELSE { [permutation |-> Some([i \in 1..n |-> i - 1])] }

\* ChoiceQuestion.make_choice_form: the (display index, text) pairs of the
\* form's field
MakeChoiceForm(page_desc, page_data) ==
    LET permutation == Val(page_data.permutation)
    IN  [i \in 1..Len(permutation) |->
            <<i - 1, process_choice_string(
                         page_desc.choices[permutation[i] + 1])>>]

\* the indices of the choices that start with CORRECT_TAG
UnpermutedCorrectIndices(page_desc) ==
    {i \in 0..(Len(page_desc.choices) - 1) :
        StartsWithTag(page_desc.choices[i + 1])}

\* the source index ChoiceQuestion.grade looks up, mutated: the display
\* index is taken for the source index
GradedSourceIndex_direct(permutation, choice) == choice

\* the source index ChoiceQuestion.grade looks up: permutation[choice]
GradedSourceIndex(permutation, choice) == permutation[choice + 1]

\* ChoiceQuestion.grade
ChoiceQuestionGrade(page_desc, page_data, answer_data) ==
    LET unpermuted_correct_indices == UnpermutedCorrectIndices(page_desc)
        first == CHOOSE i \in unpermuted_correct_indices :
                    \A j \in unpermuted_correct_indices : i <= j
        correct_answer_text ==
            <<"A correct answer is:">>
                \o strip(process_choice_string(page_desc.choices[first + 1]))
    IN  IF unpermuted_correct_indices = {}
        THEN Raise("IndexError")
        ELSE IF answer_data = None
        THEN AnswerFeedback(Some(0), Some(correct_answer_text),
                            Some(<<NO_ANSWER>>), NormNone)
        ELSE LET permutation == Val(page_data.permutation)
                 choice == Val(answer_data).choice
                 src_i == GradedSourceIndex(permutation, choice)
                 correctness ==
                     IF src_i \in unpermuted_correct_indices
                     THEN Unit ELSE 0
             IN  AnswerFeedback(Some(correctness), Some(correct_answer_text),
                     None,
                     NormText(process_choice_string(
                         page_desc.choices[src_i + 1])))

\* ------------------------------------------------------------ symbolic question

\* SymbolicQuestion.grade
SymbolicQuestionGrade(page_desc, answer_data) ==
    IF Len(page_desc.answers) = 0
    THEN Raise("IndexError")
    ELSE LET correct_answer_text == CA_PATTERN(page_desc.answers[1])
         IN  IF answer_data = None
             THEN AnswerFeedback(Some(0), Some(correct_answer_text),
                                 Some(<<NO_ANSWER>>), NormUnavailable)
             ELSE LET answer == Val(answer_data).answer
                  IN  IF ~SympyParses(answer)
                      THEN Raise("ParseError")
                      ELSE AnswerFeedback(
                              Some(IF \E i \in 1..Len(page_desc.answers) :
                                        SympyEqual(answer, page_desc.answers[i])
                                   THEN Unit ELSE 0),
                              Some(correct_answer_text), None, NormUnavailable)

\* ------------------------------------------------------------ code question

\* a value decoded from JSON: null, a number (of 1/Unit), a string, or a
\* list of strings (each item one atom)
JNull == [t |-> "null", n |-> 0, s |-> <<>>]
JNum(n) == [t |-> "num", n |-> n, s |-> <<>>]
JStr(s) == [t |-> "str", n |-> 0, s |-> s]
JList(items) == [t |-> "list", n |-> 0, s |-> items]

\* bool(val) of a decoded value
Truthy(v) ==
    CASE v.t = "null" -> FALSE
      [] v.t = "num" -> v.n # 0
      [] OTHER -> v.s # <<>>

\* the result kinds of the protocol
InfrastructureResults ==
    {"uncaught_error", "setup_compile_error", "setup_error",
     "test_compile_error", "test_error"}
UserResults == {"user_compile_error", "user_error"}
KnownResults == {"success"} \cup UserResults \cup InfrastructureResults

\* the numbers a response's points are drawn from: below 0, 0, at most
\* one half, above one half (0.8 when Unit is 10), 1 and above 1
PointsValues == {-1, 0, 3, Unit \div 2, Unit - 2, Unit, Unit + 1}

\* the response dictionaries the execution service may send; a missing key
\* is None
Responses ==
    [result : {None} \cup {Some(r) : r \in KnownResults \cup {"SUCCESS", "bogus"}},
     points : {None, Some(JNull)} \cup {Some(JNum(n)) : n \in PointsValues},
     feedback : {None, Some(JList(<<>>)), Some(JList(<<"<", "t">>))},
     traceback : {None, Some(JStr(<<>>)), Some(JStr(<<"<", "t">>))},
     stdout : {None, Some(JStr(<<>>)), Some(JStr(<<"a">>))},
     stderr : {None, Some(JStr(<<>>)), Some(JStr(<<"c">>))}]

\* html_escape of courseflow.utils
html_escape_char(a) == IF a = "<" THEN "&lt;" ELSE a
html_escape(s) == [i \in 1..Len(s) |-> html_escape_char(s[i])]

RECURSIVE Join(_, _)
\* sep.join(parts) of a sequence of strings
Join(parts, sep) ==
    IF parts = <<>> THEN <<>>
    ELSE IF Len(parts) = 1 THEN parts[1]
    ELSE parts[1] \o <<sep>> \o Join(Tail(parts), sep)

SEPARATOR == "-------------------------------------"

\* sorted(response_dict.items()) without the result: the keys in order
SortedKeys == <<"feedback", "points", "stderr", "stdout", "traceback">>

\* the items of response_dict (other than the result) that the loop of
\* PythonCodeQuestion.grade appends to error_msg_parts
ReportedItems(response_dict) ==
    SelectSeq([i \in 1..Len(SortedKeys) |->
                  [key |-> SortedKeys[i], val |-> response_dict[SortedKeys[i]]]],
              LAMBDA item : item.val # None /\ Truthy(Val(item.val)))

\* error_msg of PythonCodeQuestion.grade: "\n".join(error_msg_parts), which
\* raises TypeError when a part is not a string
ErrorMessage(response_dict, user_code) ==
    LET items == ReportedItems(response_dict)
    IN  IF \E i \in 1..Len(items) : Val(items[i].val).t # "str"
        THEN Err("TypeError", <<"sequence item: expected string">>)
        ELSE Ok(Join(
                <<<<"RESULT: ", Val(response_dict.result)>>>>
                \o Flatten([i \in 1..Len(items) |->
                       <<<<SEPARATOR>>, <<items[i].key>>, <<SEPARATOR>>,
                         Val(items[i].val).s>>])
                \o <<<<SEPARATOR>>, <<"user code">>, <<SEPARATOR>>,
                     user_code, <<SEPARATOR>>>>,
                "\n"))

APOLOGY == "<p>The grading code failed. Sorry about that. The staff has been informed, and if this problem is due to an issue with the grading code, it will be fixed as soon as possible. In the meantime, you'll see a traceback below that may help you figure out what went wrong.</p>"
COMPILE_FAILED == "<p>Your code failed to compile. An error message is below.</p>"
EXCEPTION_FAILED == "<p>Your code failed with an exception. A traceback is below.</p>"

\* the if/elif chain on response.result of PythonCodeQuestion.grade,
\* mutated: an unknown result is passed over like a success
ResultSentence_lenient(result) ==
    IF result \in InfrastructureResults THEN Ok(<<<<APOLOGY>>>>)
    ELSE IF result = "user_compile_error" THEN Ok(<<<<COMPILE_FAILED>>>>)
    ELSE IF result = "user_error" THEN Ok(<<<<EXCEPTION_FAILED>>>>)
    ELSE Ok(<<>>)

\* the if/elif chain on response.result of PythonCodeQuestion.grade: the
\* first feedback bits, or the RuntimeError
ResultSentence(result) ==
    IF result = "success" THEN Ok(<<>>)
    ELSE IF result \in InfrastructureResults THEN Ok(<<<<APOLOGY>>>>)
    ELSE IF result = "user_compile_error" THEN Ok(<<<<COMPILE_FAILED>>>>)
    ELSE IF result = "user_error" THEN Ok(<<<<EXCEPTION_FAILED>>>>)
    ELSE Err("RuntimeError", <<"invalid cfrunpy result: ", result>>)

\* correctness of PythonCodeQuestion.grade, mutated: any points count as
\* full marks
ResponseCorrectness_full(response) ==
    IF response.points = None THEN None ELSE Some(Unit)

\* correctness of PythonCodeQuestion.grade: response.points when the
\* response has the attribute, else None
ResponseCorrectness(response) ==
    IF response.points = None THEN None
    ELSE IF Val(response.points).t = "null" THEN None
    ELSE Some(Val(response.points).n)

\* feedback_bits, mutated: the error messages are appended before the
\* output
FeedbackBits_swapped(response) ==
        (IF response.points # None
            THEN <<<<"<p><b>">>
                   \o get_auto_feedback(ResponseCorrectness(response))
                   \o <<"</b></p>">>>>
            ELSE <<>>)
        \o (IF response.feedback # None /\ Truthy(Val(response.feedback))
            THEN <<<<"<p>Here is some feedback on your code:<ul>">>
                   \o Flatten([i \in 1..Len(Val(response.feedback).s) |->
                          <<"<li>",
                            html_escape_char(Val(response.feedback).s[i]),
                            "</li>">>])
                   \o <<"</ul></p>">>>>
            ELSE <<>>)
        \o (IF response.traceback # None /\ Truthy(Val(response.traceback))
            THEN <<<<"<p>This is the exception traceback:<pre>">>
                   \o html_escape(Val(response.traceback).s)
                   \o <<"</pre></p>">>>>
            ELSE <<>>)
        \o (IF response.stderr # None /\ Truthy(Val(response.stderr))
            THEN <<<<"<p>Your code printed the following error messages:<pre>">>
                   \o html_escape(Val(response.stderr).s)
                   \o <<"</pre></p>">>>>
            ELSE <<>>)
        \o (IF response.stdout # None /\ Truthy(Val(response.stdout))
            THEN <<<<"<p>Your code printed the following output:<pre>">>
                   \o html_escape(Val(response.stdout).s)
                   \o <<"</pre></p>">>>>
            ELSE <<>>)

\* feedback_bits of PythonCodeQuestion.grade after the if/elif chain
FeedbackBits(response) ==
        (IF response.points # None
            THEN <<<<"<p><b>">>
                   \o get_auto_feedback(ResponseCorrectness(response))
                   \o <<"</b></p>">>>>
            ELSE <<>>)
        \o (IF response.feedback # None /\ Truthy(Val(response.feedback))
            THEN <<<<"<p>Here is some feedback on your code:<ul>">>
                   \o Flatten([i \in 1..Len(Val(response.feedback).s) |->
                          <<"<li>",
                            html_escape_char(Val(response.feedback).s[i]),
                            "</li>">>])
                   \o <<"</ul></p>">>>>
            ELSE <<>>)
        \o (IF response.traceback # None /\ Truthy(Val(response.traceback))
            THEN <<<<"<p>This is the exception traceback:<pre>">>
                   \o html_escape(Val(response.traceback).s)
                   \o <<"</pre></p>">>>>
            ELSE <<>>)
        \o (IF response.stdout # None /\ Truthy(Val(response.stdout))
            THEN <<<<"<p>Your code printed the following output:<pre>">>
                   \o html_escape(Val(response.stdout).s)
                   \o <<"</pre></p>">>>>
            ELSE <<>>)
        \o (IF response.stderr # None /\ Truthy(Val(response.stderr))
            THEN <<<<"<p>Your code printed the following error messages:<pre>">>
                   \o html_escape(Val(response.stderr).s)
                   \o <<"</pre></p>">>>>
            ELSE <<>>)

\* what a call leaves behind: the notifications it sent and its outcome
Outcome(sent, ret) == [sent |-> sent, ret |-> ret]

\* the notification send_mail is called with
Notification(page_desc, error_msg) ==
    [subject |-> "Broken code question", error_message |-> error_msg]

\* PythonCodeQuestion.grade before the request: the early return on a
\* missing answer, or no return yet
CodeQuestionNoAnswer(page_desc) ==
    AnswerFeedback(Some(0),
        Some(IF page_desc.correct_code # None
             THEN <<"The following code is a valid answer:<pre>">>
                      \o Val(page_desc.correct_code) \o <<"</pre>">>
             ELSE <<>>),
        Some(<<NO_ANSWER>>), NormNone)

\* PythonCodeQuestion.grade from the decoded response on
CodeQuestionGradeResponse(page_desc, user_code, response_dict) ==
    IF response_dict.result = None
    THEN Outcome(<<>>, Raise("KeyError"))
    ELSE
    LET result == Val(response_dict.result)
        error_msg == ErrorMessage(response_dict, user_code)
        sent == IF result \in InfrastructureResults
                THEN <<Notification(page_desc, Val(error_msg.v))>> ELSE <<>>
        sentence == ResultSentence(result)
        correctness == ResponseCorrectness(response_dict)
        correct_answer ==
            IF page_desc.correct_code # None
            THEN Some(<<"<pre>">> \o html_escape(Val(page_desc.correct_code))
                          \o <<"</pre>">>)
            ELSE None
    IN  IF result \in InfrastructureResults /\ ~error_msg.ok
        THEN Outcome(<<>>, Raise(error_msg.exc))
        ELSE IF ~sentence.ok
        THEN Outcome(sent, Raise(sentence.exc))
        ELSE Outcome(sent,
                AnswerFeedback(correctness, correct_answer,
                    Some(Join(Val(sentence.v) \o FeedbackBits(response_dict),
                              "\n")),
                    NormUnavailable))

\* ------------------------------------------------------------ state

VARIABLES
    page_desc,    \* the page descriptor the content loader read
    page,         \* the page object: not yet constructed, valid, or refused
    vctx,         \* the warnings added to the validation context
    page_data,    \* the page data stored for the visit, or None
    form,         \* the form last rendered, or None
    answer_data,  \* the answer data stored for the visit, or None
    result,       \* the outcome of the last grade call on answer_data, or None
    mail,         \* the operator notifications sent
    pc,           \* where PythonCodeQuestion.grade is in its round trip
    net,          \* the socket calls of the current grade call, in order
    packets,      \* the non-empty packets received in the current call
    response,     \* the response the current grade call decoded, or None
    fb_args,      \* the arguments of a direct AnswerFeedback construction
    course,       \* the course row as stored
    request,      \* the last request update_course handled, and its outcome
    validated     \* the revisions validate_course_content has accepted

vars == <<page_desc, page, vctx, page_data, form, answer_data, result, mail,
          pc, net, packets, response, fb_args, course, request, validated>>

\* the state of the page and of its grading
pagevars == <<page_desc, page, vctx, page_data, form, answer_data, result,
              mail, pc, net, packets, response, fb_args>>

\* the state update_course works on
site == <<course, request, validated>>

grading == <<result, mail, pc, net, packets, response>>

\* what a learner may type into the answer field of a text question
TextInputs ==
    { <<"c", "a", "t">>, <<"C", "a", "t">>, <<"C", "A", "t">>,
      <<"c", "u", "t">>,
      <<"a", "+", "c">>, <<"c", "+">>, <<"c", "a", "t", " ">>, <<>> }

Answer(answer, choice) == [answer |-> answer, choice |-> choice]

IsChoice == page_desc.type = "ChoiceQuestion"
IsText == page_desc.type = "TextQuestion"
IsCode == page_desc.type = "PythonCodeQuestion"
IsSymbolic == page_desc.type = "SymbolicQuestion"

\* what a call with page_data leaves behind: its return value and the page
\* data dictionary (passed by reference) as it is after the call
Called(ret, pd) == [ret |-> ret, page_data |-> pd]

Form(choices, readonly) == [choices |-> choices, readonly |-> readonly]

\* make_form of each page class
MakeFormCall(desc, pd, ad, answer_is_final) ==
    Called(Form(IF desc.type = "ChoiceQuestion"
                THEN MakeChoiceForm(desc, pd) ELSE <<>>,
                answer_is_final),
           pd)

\* post_form of each page class, the form's validation, and answer_data on
\* the valid form: the answer data to store, or None when the form is
\* refused, or the exception
PostFormCall(desc, matchers, pd, post) ==
    CASE desc.type = "TextQuestion" ->
            Called([form |-> Form(<<>>, FALSE), exc |-> "",
                    answer_data |->
                        IF TextAnswerFormValid(matchers, post.answer)
                        THEN Some(Answer(strip(post.answer), 0)) ELSE None],
                   pd)
      [] desc.type = "ChoiceQuestion" ->
            LET f == MakeChoiceForm(desc, pd)
            IN  Called([form |-> Form(f, FALSE), exc |-> "",
                        answer_data |->
                            IF \E i \in 1..Len(f) : f[i][1] = post.choice
                            THEN Some(Answer(<<>>, post.choice)) ELSE None],
                       pd)
      [] desc.type = "PythonCodeQuestion" ->
            Called([form |-> Form(<<>>, FALSE), exc |-> "",
                    answer_data |->
                        IF post.answer # <<>>
                        THEN Some(Answer(strip(post.answer), 0)) ELSE None],
                   pd)
      [] desc.type = "SymbolicQuestion" ->
            \* SymbolicAnswerForm(post_data, files_data) binds post_data to
            \* the matchers parameter of TextAnswerForm.__init__; clean()
            \* then calls validate on the keys of post_data
            Called([form |-> Form(<<>>, FALSE), exc |-> "AttributeError",
                    answer_data |-> None],
                   pd)

\* grade, mutated: a choice question draws its page data again (here the
\* reversed order) and leaves it in the dictionary it was handed
GradeCall_regenerate(desc, matchers, pd, ad) ==
    CASE desc.type = "TextQuestion" -> Called(TextQuestionGrade(matchers, ad), pd)
      [] desc.type = "ChoiceQuestion" ->
            LET n == Len(desc.choices)
                again == [permutation |-> Some([i \in 1..n |-> n - i])]
            IN  Called(ChoiceQuestionGrade(desc, again, ad), again)
      [] desc.type = "SymbolicQuestion" ->
            Called(SymbolicQuestionGrade(desc, ad), pd)

\* grade of the page classes that grade in-process
GradeCall(desc, matchers, pd, ad) ==
    CASE desc.type = "TextQuestion" -> Called(TextQuestionGrade(matchers, ad), pd)
      [] desc.type = "ChoiceQuestion" ->
            Called(ChoiceQuestionGrade(desc, pd, ad), pd)
      [] desc.type = "SymbolicQuestion" ->
            Called(SymbolicQuestionGrade(desc, ad), pd)

\* ------------------------------------------------------------ course update

\* the revision the course row holds before any update
INITIAL_SHA == <<"0", "0">>

Course(sha) == [active_git_commit_sha |-> sha]

\* unicode.encode("utf-8"): an ASCII character is one byte, a character of
\* the Latin-1 supplement two
encode_utf8_char(a) == IF a = "\\u00e9" THEN <<"\\xc3", "\\xa9">> ELSE <<a>>
encode_utf8(text) == Flatten([i \in 1..Len(text) |-> encode_utf8_char(text[i])])

\* what a POST may carry in the new_sha field: no field, or a text
NewShaInputs ==
    {None, Some(<<>>), Some(<<"a", "1">>), Some(<<"b", "2">>),
     Some(<<"\\u00e9">>)}

\* GitUpdateForm(request.POST, request.FILES).is_valid(): new_sha is
\* required
GitUpdateFormValid(post) == post # None /\ Val(post) # <<>>

\* how validate_course_content(course, new_sha) may end: it returns, or it
\* raises an Exception, or something that is not an Exception
ValidationOutcomes == {"ok", "ValidationError", "KeyError", "SystemExit"}

VALIDATED_MESSAGE ==
    [level |-> "INFO",
     text |-> <<"Course content validated successfully. Update applied.">>]
FAILED_MESSAGE(e) ==
    [level |-> "ERROR",
     text |-> <<"Course content did not validate successfully. (", e,
                ") Update not applied.">>]

\* what a call of update_course leaves behind: the course row as stored,
\* how the call ended, the messages it added, and the revision it saw
\* validate, if any
Updated(stored, status, added, accepted) ==
    [course |-> stored, status |-> status, messages |-> added,
     accepted |-> accepted]

\* update_course, mutated: the update is applied although the validation
\* raised
update_course_unvalidated(stored, method, known, post, validates, saves) ==
    IF ~known THEN Updated(stored, "Http404", <<>>, None)
    ELSE IF method = "POST"
    THEN IF GitUpdateFormValid(post)
         THEN LET new_sha == encode_utf8(Val(post))
              IN  IF validates = "SystemExit"
                  THEN Updated(stored, "SystemExit", <<>>, None)
                  ELSE IF validates # "ok"
                  THEN IF saves
                       THEN Updated(Course(new_sha), "rendered",
                                    <<FAILED_MESSAGE(validates)>>, None)
                       ELSE Updated(stored, "DatabaseError",
                                    <<FAILED_MESSAGE(validates)>>, None)
                  ELSE IF saves
                  THEN Updated(Course(new_sha), "rendered",
                               <<VALIDATED_MESSAGE>>, Some(new_sha))
                  ELSE Updated(stored, "DatabaseError",
                               <<VALIDATED_MESSAGE>>, Some(new_sha))
         ELSE Updated(stored, "rendered", <<>>, None)
    ELSE Updated(stored, "rendered", <<>>, None)

\* update_course(request, course_identifier): known is whether
\* get_object_or_404 finds the course, validates how
\* validate_course_content ends, saves whether course.save() succeeds
update_course(stored, method, known, post, validates, saves) ==
    IF ~known THEN Updated(stored, "Http404", <<>>, None)
    ELSE IF method = "POST"
    THEN IF GitUpdateFormValid(post)
         THEN LET new_sha == encode_utf8(Val(post))
              IN  IF validates = "SystemExit"
                  THEN Updated(stored, "SystemExit", <<>>, None)
                  ELSE IF validates # "ok"
                  THEN Updated(stored, "rendered", <<FAILED_MESSAGE(validates)>>, None)
                  ELSE IF saves
                  THEN Updated(Course(new_sha), "rendered",
                               <<VALIDATED_MESSAGE>>, Some(new_sha))
                  ELSE Updated(stored, "DatabaseError",
                               <<VALIDATED_MESSAGE>>, Some(new_sha))
         ELSE Updated(stored, "rendered", <<>>, None)
    ELSE Updated(stored, "rendered", <<>>, None)

Request(method, known, post, validates, saves, status, added) ==
    [method |-> method, known |-> known, post |-> post,
     validates |-> validates, saves |-> saves, status |-> status,
     messages |-> added]

\* the course as it is before any request
SiteInit ==
    /\ course = Course(INITIAL_SHA)
    /\ request = None
    /\ validated = {}

\* ------------------------------------------------------------ actions

Idle == page.status = "valid" /\ pc = "idle"

\* the content loader constructs the page from its descriptor
Construct ==
    /\ page.status = "new"
    /\ LET c == PageInit(page_desc)
       IN  page' = c.page /\ vctx' = c.warnings
    /\ UNCHANGED <<page_desc, page_data, form, answer_data, grading, fb_args>>
    /\ UNCHANGED site

\* the flow calls make_page_data when the learner first visits the page,
\* and stores what it returns
GeneratePageData ==
    /\ Idle
    /\ page_data = None
    /\ \E pd \in MakePageData(page_desc, page.shuffle) : page_data' = Some(pd)
    /\ UNCHANGED <<page_desc, page, vctx, form, answer_data, grading, fb_args>>
    /\ UNCHANGED site

\* the flow renders the page
MakeForm ==
    /\ Idle
    /\ page_data # None
    /\ \E answer_is_final \in BOOLEAN :
          LET c == MakeFormCall(page_desc, Val(page_data), answer_data,
                                answer_is_final)
          IN  form' = Some(c.ret) /\ page_data' = Some(c.page_data)
    /\ UNCHANGED <<page_desc, page, vctx, answer_data, grading, fb_args>>
    /\ UNCHANGED site

\* the learner submits: post_form, the form's validation and, on a valid
\* form, answer_data, whose return value the flow stores
Submit ==
    /\ Idle
    /\ page_data # None
    /\ \E post \in
            (IF IsChoice
             THEN {Answer(<<>>, c) : c \in 0..Len(page_desc.choices)}
             ELSE IF IsCode THEN {Answer(a, 0) : a \in CodeStrings \cup {<<>>}}
             ELSE {Answer(a, 0) : a \in TextInputs}) :
          LET c == PostFormCall(page_desc, page.matchers, Val(page_data), post)
          IN  /\ page_data' = Some(c.page_data)
              /\ form' = IF c.ret.exc = "" THEN Some(c.ret.form) ELSE form
              /\ IF c.ret.answer_data # None
                 THEN /\ answer_data' = c.ret.answer_data
                      /\ result' = None
                      /\ response' = None
                      /\ net' = <<>>
                      /\ packets' = 0
                 ELSE UNCHANGED <<answer_data, result, response, net, packets>>
    /\ UNCHANGED <<page_desc, page, vctx, mail, pc, fb_args>>
    /\ UNCHANGED site

\* the flow grades the stored answer (or the missing answer) of a text,
\* choice or symbolic question
Grade ==
    /\ Idle
    /\ ~IsCode
    /\ page_data # None
    /\ LET c == GradeCall(page_desc, page.matchers, Val(page_data), answer_data)
       IN  result' = Some(c.ret) /\ page_data' = Some(c.page_data)
    /\ UNCHANGED <<page_desc, page, vctx, form, answer_data, mail, pc, net,
                   packets, response, fb_args>>
    /\ UNCHANGED site

\* the flow grades the stored answer (or the missing answer) of a code
\* question: PythonCodeQuestion.grade up to sock.connect of
\* request_python_run.  The model follows a visit up to its first
\* notification.
CodeGrade ==
    /\ Idle
    /\ IsCode
    /\ page_data # None
    /\ mail = <<>>
    /\ response' = None
    /\ packets' = 0
    /\ IF answer_data = None
       THEN /\ result' = Some(CodeQuestionNoAnswer(page_desc))
            /\ net' = <<>>
            /\ pc' = "idle"
       ELSE \/ /\ net' = <<"socket", "connect">>
               /\ pc' = "connected"
               /\ result' = None
            \/ \* connect raises socket.error, outside the try block
               /\ net' = <<"socket", "connect">>
               /\ pc' = "idle"
               /\ result' = Some(Raise("socket.error"))
    /\ UNCHANGED <<page_desc, page, vctx, page_data, form, answer_data, mail,
                   fb_args>>
    /\ UNCHANGED site

\* sock.sendall(...) of request_python_run
SendAll ==
    /\ pc = "connected"
    /\ \/ /\ net' = Append(net, "sendall")
          /\ pc' = "sent"
          /\ UNCHANGED result
       \/ \* sendall raises; the finally block closes the socket
          /\ net' = net \o <<"sendall", "close">>
          /\ pc' = "idle"
          /\ result' = Some(Raise("socket.error"))
    /\ UNCHANGED <<page_desc, page, vctx, page_data, form, answer_data, mail,
                   packets, response, fb_args>>
    /\ UNCHANGED site

\* sock.shutdown(socket.SHUT_WR) of request_python_run
Shutdown ==
    /\ pc = "sent"
    /\ net' = Append(net, "shutdown")
    /\ pc' = "shut"
    /\ UNCHANGED <<page_desc, page, vctx, page_data, form, answer_data, result,
                   mail, packets, response, fb_args>>
    /\ UNCHANGED site

\* recvall, mutated: the client starts to receive as soon as the request is
\* sent, before the send side is shut down
RecvPacket_early ==
    /\ pc \in {"sent", "shut"}
    /\ packets < MaxPackets
    /\ net' = Append(net, "recv")
    /\ packets' = packets + 1
    /\ UNCHANGED <<page_desc, page, vctx, page_data, form, answer_data, result,
                   mail, pc, response, fb_args>>
    /\ UNCHANGED site

\* one pass of the loop of recvall that receives a non-empty packet
RecvPacket ==
    /\ pc = "shut"
    /\ packets < MaxPackets
    /\ net' = Append(net, "recv")
    /\ packets' = packets + 1
    /\ UNCHANGED <<page_desc, page, vctx, page_data, form, answer_data, result,
                   mail, pc, response, fb_args>>
    /\ UNCHANGED site

\* sock.recv raises; the finally block closes the socket
RecvError ==
    /\ pc = "shut"
    /\ net' = net \o <<"recv", "close">>
    /\ pc' = "idle"
    /\ result' = Some(Raise("socket.error"))
    /\ UNCHANGED <<page_desc, page, vctx, page_data, form, answer_data, mail,
                   packets, response, fb_args>>
    /\ UNCHANGED site

\* the pass of the loop of recvall that receives the empty packet, the
\* decoding of the bytes received, and the rest of PythonCodeQuestion.grade
RecvEnd ==
    /\ pc = "shut"
    /\ net' = net \o <<"recv", "loads", "close">>
    /\ pc' = "idle"
    /\ \/ \* json.loads raises ValueError: no bytes, or no JSON document
          /\ result' = Some(Raise("ValueError"))
          /\ UNCHANGED <<mail, response>>
       \/ /\ packets > 0
          /\ \E response_dict \in Responses :
                LET o == CodeQuestionGradeResponse(page_desc,
                             Val(answer_data).answer, response_dict)
                IN  /\ response' = Some(response_dict)
                    /\ mail' = mail \o o.sent
                    /\ result' = Some(o.ret)
    /\ UNCHANGED <<page_desc, page, vctx, page_data, form, answer_data,
                   packets, fb_args>>
    /\ UNCHANGED site

\* ------------------------------------------------------------ specification

Init ==
    /\ page_desc \in TextDescs \cup ChoiceDescs \cup CodeDescs \cup SymbolicDescs
    /\ page = NoPage
    /\ vctx = <<>>
    /\ page_data = None
    /\ form = None
    /\ answer_data = None
    /\ result = None
    /\ mail = <<>>
    /\ pc = "idle"
    /\ net = <<>>
    /\ packets = 0
    /\ response = None
    /\ fb_args = None
    /\ SiteInit

Next ==
    \/ Construct
    \/ GeneratePageData
    \/ MakeForm
    \/ Submit
    \/ Grade
    \/ CodeGrade
    \/ SendAll
    \/ Shutdown
    \/ RecvPacket
    \/ RecvError
    \/ RecvEnd

Spec == Init /\ [][Next]_vars

\* The steps of request_python_run that do not wait for the execution
\* service: sendall and shutdown return (or raise) on their own.  sock.recv
\* blocks until the service sends, closes or fails, and the socket has no
\* timeout set, so the receiving steps carry no fairness.
ClientSteps == SendAll \/ Shutdown

SpecLive == Init /\ [][Next]_vars /\ WF_vars(ClientSteps)

\* AnswerFeedback constructed directly, on arguments of every kind

FeedbackArgs ==
    [correctness : {None} \cup {Some(c) : c \in (-2)..(Unit + 2)},
     correct_answer : {None, Some(<<"a">>)},
     feedback : {None, Some(<<>>), Some(<<"c">>)},
     normalized_answer : {NormUnavailable, NormNone}]

FeedbackInit ==
    /\ page_desc = [type |-> "Page", answers |-> <<>>, choices |-> <<>>,
                    shuffle |-> None, correct_code |-> None]
    /\ page = NoPage
    /\ vctx = <<>>
    /\ page_data = None
    /\ form = None
    /\ answer_data = None
    /\ result = None
    /\ mail = <<>>
    /\ pc = "idle"
    /\ net = <<>>
    /\ packets = 0
    /\ response = None
    /\ fb_args \in {Some(a) : a \in FeedbackArgs}
    /\ SiteInit

ConstructFeedback ==
    /\ fb_args # None
    /\ result = None
    /\ result' = Some(AnswerFeedback(Val(fb_args).correctness,
                          Val(fb_args).correct_answer, Val(fb_args).feedback,
                          Val(fb_args).normalized_answer))
    /\ UNCHANGED <<page_desc, page, vctx, page_data, form, answer_data, mail,
                   pc, net, packets, response, fb_args>>
    /\ UNCHANGED site

FeedbackNext == ConstructFeedback

SpecFeedback == FeedbackInit /\ [][FeedbackNext]_vars

\* update_course on requests of every kind

\* a staff member requests the course update page, or posts its form
UpdateCourse ==
    /\ \E method \in {"GET", "HEAD", "POST"}, known \in BOOLEAN,
          post \in NewShaInputs, validates \in ValidationOutcomes,
          saves \in BOOLEAN :
          LET c == update_course(course, method, known, post, validates, saves)
          IN  /\ course' = c.course
              /\ request' = Some(Request(method, known, post, validates,
                                         saves, c.status, c.messages))
              /\ validated' = validated \cup
                      (IF c.accepted = None THEN {} ELSE {Val(c.accepted)})
    /\ UNCHANGED pagevars

UpdateInit ==
    /\ page_desc = [type |-> "Page", answers |-> <<>>, choices |-> <<>>,
                    shuffle |-> None, correct_code |-> None]
    /\ page = NoPage
    /\ vctx = <<>>
    /\ page_data = None
    /\ form = None
    /\ answer_data = None
    /\ result = None
    /\ mail = <<>>
    /\ pc = "idle"
    /\ net = <<>>
    /\ packets = 0
    /\ response = None
    /\ fb_args = None
    /\ SiteInit

UpdateNext == UpdateCourse

SpecUpdate == UpdateInit /\ [][UpdateNext]_vars

\* ------------------------------------------------------------ properties

Graded == result # None
LastOutcome == Val(result)
IsFeedback(r) == r.kind = "feedback"
Contains(text, atom) == \E i \in 1..Len(text) : text[i] = atom

\* C1: grade with no answer returns correctness 0 and the feedback "No
\* answer provided." for every page type, and a code question neither opens
\* a connection nor sends a notification for it.
C1_NoAnswer ==
    (page.status = "valid" /\ Graded /\ answer_data = None) =>
        /\ IsFeedback(LastOutcome)
        /\ LastOutcome.correctness = Some(0)
        /\ LastOutcome.feedback = <<NO_ANSWER>>
        /\ net = <<>>
        /\ mail = <<>>

\* C1 holds of every choice and code question, of every text question whose
\* first matcher with a correct answer text has a non-empty one, and of
\* every symbolic question with an answer.
C1_NoAnswerElsewhere ==
    (/\ page.status = "valid" /\ Graded /\ answer_data = None
     /\ IsText => UnspecCorrectAnswerText(page.matchers) # Some(<<>>)
     /\ IsSymbolic => page_desc.answers # <<>>) =>
        /\ IsFeedback(LastOutcome)
        /\ LastOutcome.correctness = Some(0)
        /\ LastOutcome.feedback = <<NO_ANSWER>>
        /\ net = <<>>
        /\ mail = <<>>

\* C2: constructing an AnswerFeedback succeeds exactly when the correctness
\* is None or in [0,1], fails with an error otherwise, and the object built
\* carries the correctness it was given.
C2_Construction ==
    (fb_args # None /\ Graded) =>
        LET c == Val(fb_args).correctness
        IN  /\ IsFeedback(LastOutcome) <=>
                (c = None \/ (0 <= Val(c) /\ Val(c) <= Unit))
            /\ ~IsFeedback(LastOutcome) => LastOutcome.exc = "ValueError"
            /\ IsFeedback(LastOutcome) => LastOutcome.correctness = c

C2_Witness ==
    /\ fb_args # None /\ Graded
    /\ Val(fb_args).correctness = Some(Unit + 1)
    /\ LastOutcome.kind = "raise"

\* the greatest score a matcher of the page gives the answer
MaxScore(matchers, answer) ==
    IF \E i \in 1..Len(matchers) : MatcherGrade(matchers[i], answer) = 1
    THEN 1 ELSE 0

\* C3: a text question's correctness is the greatest of the scores its
\* matchers give the submitted answer.
C3_MaxOfMatchers ==
    (IsText /\ Graded /\ answer_data # None) =>
        /\ IsFeedback(LastOutcome)
        /\ LastOutcome.correctness =
              Some(MaxScore(page.matchers, Val(answer_data).answer) * Unit)

\* C3 holds of every text question whose first matcher with a correct
\* answer text has a non-empty one.
C3_MaxOfMatchersElsewhere ==
    (/\ IsText /\ Graded /\ answer_data # None
     /\ UnspecCorrectAnswerText(page.matchers) # Some(<<>>)) =>
        /\ IsFeedback(LastOutcome)
        /\ LastOutcome.correctness =
              Some(MaxScore(page.matchers, Val(answer_data).answer) * Unit)

\* the example of C3: matchers plain "cat" and regex "c.t", answer "Cat"
C3_Example ==
    /\ IsText /\ Graded
    /\ page_desc.answers = <<Strict("plain", <<"c", "a", "t">>),
                             Strict("regex", <<"c", ".", "t">>)>>
    /\ answer_data = Some(Answer(<<"C", "a", "t">>, 0))
    /\ LastOutcome.correctness = Some(Unit)
    /\ LastOutcome.normalized_answer = NormText(<<"c", "a", "t">>)

\* the source index of the option shown at display index i (from 0)
SourceIndex(i) == Val(Val(page_data).permutation)[i + 1]

\* C4: the option a choice question shows at display index i is
\* choices[perm[i]], and grading the answer i scores 1 exactly when that
\* option is tagged correct: the option graded is the option shown.
C4_GradedIsDisplayed ==
    (IsChoice /\ page_data # None) =>
        /\ form # None =>
              /\ Len(Val(form).choices) = Len(page_desc.choices)
              /\ \A i \in 0..(Len(page_desc.choices) - 1) :
                    Val(form).choices[i + 1] =
                        <<i, process_choice_string(
                                 page_desc.choices[SourceIndex(i) + 1])>>
        /\ (Graded /\ answer_data # None) =>
              LET i == Val(answer_data).choice
                  shown == page_desc.choices[SourceIndex(i) + 1]
              IN  /\ IsFeedback(LastOutcome)
                  /\ LastOutcome.correctness =
                        Some(IF StartsWithTag(shown) THEN Unit ELSE 0)
                  /\ LastOutcome.normalized_answer =
                        NormText(process_choice_string(shown))
                  /\ form # None =>
                        LastOutcome.normalized_answer.s = Val(form).choices[i + 1][2]

C4_Witness ==
    /\ IsChoice /\ page_data # None /\ form # None
    /\ Graded /\ answer_data # None
    /\ SourceIndex(Val(answer_data).choice) # Val(answer_data).choice
    /\ StartsWithTag(
          page_desc.choices[SourceIndex(Val(answer_data).choice) + 1])
    /\ ~StartsWithTag(page_desc.choices[Val(answer_data).choice + 1])
    /\ LastOutcome.correctness = Some(Unit)

\* C5: the page data of a choice question holds a permutation of the
\* indices 0..n-1 of its n choices, the identity when the shuffle flag is
\* absent or false.
C5_Permutation ==
    (IsChoice /\ page_data # None) =>
        LET n == Len(page_desc.choices)
            perm == Val(Val(page_data).permutation)
        IN  /\ Len(perm) = n
            /\ \A k \in 0..(n - 1) :
                  Cardinality({i \in 1..n : perm[i] = k}) = 1
            /\ page_desc.shuffle \in {None, Some(FALSE)} =>
                  \A i \in 1..n : perm[i] = i - 1

C5_Witness ==
    /\ IsChoice /\ page_data # None
    /\ page_desc.shuffle = Some(TRUE)
    /\ Len(page_desc.choices) = MaxChoices
    /\ \A i \in 1..MaxChoices :
          Val(Val(page_data).permutation)[i] = MaxChoices - i

\* C6: once page data is stored, no render, submission or grade replaces
\* or changes it.
C6_PageDataKept == [][page_data # None => page_data' = page_data]_vars

C6_Witness ==
    /\ IsChoice /\ page_data # None
    /\ page_desc.shuffle = Some(TRUE)
    /\ \E i \in 1..Len(page_desc.choices) :
          Val(Val(page_data).permutation)[i] # i - 1
    /\ form # None /\ answer_data # None /\ Graded

\* the result of the response the last grade call decoded
ResponseResult == Val(Val(response).result)
Responded == IsCode /\ response # None /\ Val(response).result # None

\* C7: a code question's grade sends a notification exactly when the
\* response's result is one of the five infrastructure kinds.
C7_NotifiedIffInfrastructure ==
    Responded => (mail # <<>> <=> ResponseResult \in InfrastructureResults)

\* C8: on a response of an infrastructure kind, whatever else it carries,
\* grade sends the notification and returns feedback with the apology.
C8_InfrastructureApology ==
    (Responded /\ ResponseResult \in InfrastructureResults) =>
        /\ mail # <<>>
        /\ IsFeedback(LastOutcome)
        /\ Contains(LastOutcome.feedback, APOLOGY)

\* C9: on a success with points p in [0,1] the correctness is p, without
\* points it is None, and no notification is sent.
C9_SuccessPoints ==
    (Responded /\ ResponseResult = "success") =>
        /\ mail = <<>>
        /\ Val(response).points = None =>
              IsFeedback(LastOutcome) /\ LastOutcome.correctness = None
        /\ \A p \in 0..Unit :
              Val(response).points = Some(JNum(p)) =>
                  IsFeedback(LastOutcome) /\ LastOutcome.correctness = Some(p)

C9_Witness ==
    /\ Responded /\ ResponseResult = "success"
    /\ Val(response).points = Some(JNum(Unit - 2))
    /\ IsFeedback(LastOutcome)
    /\ LastOutcome.correctness = Some(Unit - 2)
    /\ mail = <<>>

\* C10: a result that is none of the eight kinds, compared case-sensitively,
\* makes grade fail: no AnswerFeedback is returned.
C10_UnknownResultFatal ==
    (Responded /\ ResponseResult \notin KnownResults) =>
        /\ LastOutcome.kind = "raise"
        /\ LastOutcome.exc = "RuntimeError"
        /\ LastOutcome.correctness = None

C10_Witness ==
    /\ Responded /\ ResponseResult = "SUCCESS"
    /\ Val(response).points = Some(JNum(Unit))
    /\ LastOutcome.kind = "raise"

\* the positions of the socket call a in the log of the current grade call
Calls(a) == {i \in 1..Len(net) : net[i] = a}

\* the log of a complete round trip that received n non-empty packets
RoundTrip(n) ==
    <<"socket", "connect", "sendall", "shutdown">>
        \o [i \in 1..(n + 1) |-> "recv"] \o <<"loads", "close">>

\* C11: a grade call with an answer opens one connection, sends the request
\* once, shuts down the send side, then receives until the empty read and
\* only then decodes: nothing is received before the shutdown, nothing is
\* sent after it, no second connection is opened.
C11_RoundTripOrder ==
    /\ Cardinality(Calls("connect")) <= 1
    /\ Cardinality(Calls("sendall")) <= 1
    /\ Cardinality(Calls("shutdown")) <= 1
    /\ Cardinality(Calls("loads")) <= 1
    /\ \A s \in Calls("sendall") : \E c \in Calls("connect") : c < s
    /\ \A h \in Calls("shutdown") : \E s \in Calls("sendall") : s < h
    /\ \A s \in Calls("sendall") : \A h \in Calls("shutdown") : s < h
    /\ \A r \in Calls("recv") : \E h \in Calls("shutdown") : h < r
    /\ \A l \in Calls("loads") :
          /\ \A r \in Calls("recv") : r < l
          /\ net[l - 1] = "recv"
          /\ Cardinality(Calls("recv")) = packets + 1
    /\ (IsCode /\ Graded /\ answer_data # None) =>
          Cardinality(Calls("connect")) = 1
    /\ (IsCode /\ response # None) => net = RoundTrip(packets)

C11_Witness ==
    /\ IsCode /\ Graded /\ response # None
    /\ packets = MaxPackets
    /\ net = RoundTrip(MaxPackets)
    /\ IsFeedback(LastOutcome)

\* C12: a grade call always terminates, even when the execution service
\* accepts the connection and then neither sends nor closes.
C12_GradeTerminates == (pc # "idle") ~> (pc = "idle")

\* the grade call has sent its request, shut down the send side and waits
\* in sock.recv
C12_Waiting == pc = "shut" /\ net = <<"socket", "connect", "sendall", "shutdown">>

\* the last grade call ended on a failure of the connection: connect was
\* refused, or sendall or recv raised
ConnectionFailed ==
    /\ IsCode /\ Graded /\ answer_data # None
    /\ \/ net = <<"socket", "connect">>
       \/ (Len(net) >= 2 /\ net[Len(net)] = "close"
              /\ net[Len(net) - 1] \in {"sendall", "recv"})

\* C13: a failed connection ends the grading attempt, is escalated by a
\* notification, and does not leave grade as an exception; no further
\* connection is attempted.
C13_ConnectionFailureEscalated ==
    ConnectionFailed =>
        /\ Cardinality(Calls("connect")) = 1
        /\ mail # <<>>
        /\ IsFeedback(LastOutcome)

\* the part of C13 that the code keeps: a failed connection is not retried
C13_NoRetry == ConnectionFailed => Cardinality(Calls("connect")) = 1

KnownKinds == Range(TEXT_ANSWER_MATCHER_CLASSES)

\* the answer string is of the deprecated form kind:pattern, kind known
IsDeprecatedForm(a) == Len(a) >= 2 /\ a[1] \in KnownKinds /\ a[2] = ":"

\* the strict form <kind>pattern of a deprecated answer string
StrictForm(a) ==
    IF IsDeprecatedForm(a) THEN Strict(a[1], SubSeq(a, 3, Len(a))) ELSE a

AnswerLocation(i) == <<LOCATION, ", answer ", ToString(i)>>

\* the warnings the validation context holds for a location
WarningsAt(location) == {j \in 1..Len(vctx) : vctx[j].location = location}

\* parse_matcher was called on answer i: every answer before it parsed
ParsedUpTo(i) ==
    \A j \in 1..(i - 1) :
        parse_matcher(AnswerLocation(j), page_desc.answers[j]).r.ok

\* C14: an answer of the deprecated form with a known kind gives the matcher
\* the strict form gives, and one warning naming its location; the warning
\* is not fatal (the page built is the page the strict forms build); an
\* answer of the strict form adds no warning.
C14_DeprecatedAccepted ==
    (IsText /\ page.status # "new") =>
        /\ \A i \in 1..Len(page_desc.answers) :
              LET a == page_desc.answers[i]
                  loc == AnswerLocation(i)
              IN  /\ (a # <<>> /\ a[1] = "<") => WarningsAt(loc) = {}
                  /\ IsDeprecatedForm(a) =>
                        /\ parse_matcher(loc, a).r
                              = parse_matcher(loc, StrictForm(a)).r
                        /\ ~parse_matcher(loc, StrictForm(a)).warned
                        /\ ParsedUpTo(i) =>
                              Cardinality(WarningsAt(loc)) = 1
                        /\ page.status = "valid" =>
                              page.matchers[i] =
                                  [prefix |-> a[1],
                                   pattern |-> SubSeq(a, 3, Len(a))]
        /\ (\A i \in 1..Len(page_desc.answers) :
                page_desc.answers[i] = StrictForm(page_desc.answers[i])
                \/ IsDeprecatedForm(page_desc.answers[i])) =>
              page = PageInit([page_desc EXCEPT !.answers =
                         [i \in 1..Len(page_desc.answers) |->
                             StrictForm(page_desc.answers[i])]]).page

C14_Witness ==
    /\ IsText /\ page.status = "valid"
    /\ page_desc.answers = <<Strict("regex", <<"c", ".", "t">>),
                             Deprecated("plain", <<"c", "a", "t">>)>>
    /\ vctx = <<Warning(AnswerLocation(2),
                        "uses deprecated 'matcher:answer' style")>>
    /\ page.matchers[2] = [prefix |-> "plain", pattern |-> <<"c", "a", "t">>]

\* the answer string names a known matcher kind, in either form
NamesKnownKind(a) ==
    \/ (Len(a) >= 3 /\ a[1] = "<" /\ a[2] \in KnownKinds /\ a[3] = ">")
    \/ IsDeprecatedForm(a)

\* the kind an answer string names
KindOf(a) == IF a[1] = "<" THEN a[2] ELSE a[1]

\* every answer of the text question names a known kind, and none of the
\* kinds can supply a canonical correct-answer text
NoCanonicalText ==
    /\ IsText /\ Len(page_desc.answers) > 0
    /\ \A i \in 1..Len(page_desc.answers) :
          /\ NamesKnownKind(page_desc.answers[i])
          /\ KindOf(page_desc.answers[i]) \in {"regex", "case_sens_regex"}

\* the descriptor has one of the defects of C15
Defective ==
    \/ IsText /\ Len(page_desc.answers) = 0
    \/ IsText /\ \E i \in 1..Len(page_desc.answers) :
                    ~NamesKnownKind(page_desc.answers[i])
    \/ NoCanonicalText
    \/ IsChoice /\ ~\E i \in 1..Len(page_desc.choices) :
                        StartsWithTag(page_desc.choices[i])

\* C15: constructing a text or choice question from a defective descriptor
\* produces no page and raises a validation error whose message includes
\* the location.
C15_ErrorsCarryLocation ==
    ((IsText \/ IsChoice) /\ page.status # "new") =>
        /\ Defective => page.status = "invalid"
        /\ page.status = "invalid" =>
              /\ page.exc = "ValidationError"
              /\ Contains(page.msg, LOCATION)

\* C15 holds of every validation failure but the one raised when no
\* matcher can supply a canonical text.
C15_OtherErrorsCarryLocation ==
    ((IsText \/ IsChoice) /\ page.status # "new") =>
        /\ Defective => page.status = "invalid"
        /\ (page.status = "invalid" /\ ~NoCanonicalText) =>
              /\ page.exc = "ValidationError"
              /\ Contains(page.msg, LOCATION)

\* the pattern an answer string of a known kind gives
PatternOf(a) ==
    IF a[1] = "<" THEN SubSeq(a, 4, Len(a)) ELSE SubSeq(a, 3, Len(a))

\* two strings are equal up to the case of their letters
SameIgnoringCase(a, b) ==
    Len(a) = Len(b) /\ \A i \in 1..Len(a) : LowerChar(a[i]) = LowerChar(b[i])

\* C16: a plain matcher scores an answer 1 exactly when it equals the
\* pattern up to case, a case-sensitive plain matcher exactly when it
\* equals the pattern; a question with that single matcher returns that
\* score.
C16_PlainMatchers ==
    (IsText /\ page.status = "valid" /\ Graded /\ answer_data # None) =>
        LET answer == Val(answer_data).answer
        IN  /\ \A i \in 1..Len(page_desc.answers) :
                  LET a == page_desc.answers[i]
                      score == MatcherGrade(page.matchers[i], answer)
                  IN  /\ KindOf(a) = "plain" =>
                            (score = 1 <=> SameIgnoringCase(PatternOf(a), answer))
                      /\ KindOf(a) = "case_sens_plain" =>
                            (score = 1 <=> PatternOf(a) = answer)
                      /\ (Len(page_desc.answers) = 1
                            /\ KindOf(a) \in {"plain", "case_sens_plain"}
                            /\ IsFeedback(LastOutcome)) =>
                            LastOutcome.correctness = Some(score * Unit)

C16_Witness ==
    /\ IsText /\ Graded
    /\ page_desc.answers = <<Strict("plain", <<"C", "a", "t">>)>>
    /\ answer_data = Some(Answer(<<"C", "A", "t">>, 0))
    /\ IsFeedback(LastOutcome)
    /\ LastOutcome.correctness = Some(Unit)

\* the case-sensitive matcher of the example refuses the lower-cased answer
C16_Refused ==
    /\ IsText /\ Graded
    /\ page_desc.answers = <<Strict("case_sens_plain", <<"C", "a", "t">>)>>
    /\ answer_data = Some(Answer(<<"c", "a", "t">>, 0))
    /\ IsFeedback(LastOutcome)
    /\ LastOutcome.correctness = Some(0)

\* C17: an AnswerFeedback built without a feedback text takes it from the
\* correctness: 0 not correct, 1 correct, None undetermined, above one half
\* and below 1 mostly correct, anything else somewhat correct; a feedback
\* text that is supplied is kept.
C17_AutoFeedback ==
    (fb_args # None /\ Graded /\ IsFeedback(LastOutcome)) =>
        LET c == Val(fb_args).correctness
            f == Val(fb_args).feedback
            text == LastOutcome.feedback
        IN  /\ f # None => text = Val(f)
            /\ f = None =>
                  /\ c = None => text = <<UNDETERMINED>>
                  /\ c = Some(0) => text = <<NOT_CORRECT>>
                  /\ c = Some(Unit) => text = <<CORRECT>>
                  /\ (c # None /\ 2 * Val(c) > Unit /\ Val(c) < Unit) =>
                        text[1] = MOSTLY_CORRECT
                  /\ (c # None /\ Val(c) > 0 /\ 2 * Val(c) <= Unit) =>
                        text[1] = SOMEWHAT_CORRECT

C17_Witness ==
    /\ fb_args # None /\ Graded /\ IsFeedback(LastOutcome)
    /\ Val(fb_args).feedback = None
    /\ Val(fb_args).correctness = Some(Unit \div 2)
    /\ LastOutcome.feedback[1] = SOMEWHAT_CORRECT

\* the string part occurs in the string text
IsInfix(part, text) ==
    \E k \in 0..(Len(text) - Len(part)) :
        \A i \in 1..Len(part) : text[k + i] = part[i]

\* the message of the last notification sent
LastMessage == mail[Len(mail)].error_message

\* C18: the notification's message holds the result kind, every key of the
\* response with its value, whatever the value, and the submitted code.
C18_FullPayload ==
    (Responded /\ mail # <<>>) =>
        /\ Contains(LastMessage, ResponseResult)
        /\ IsInfix(Val(answer_data).answer, LastMessage)
        /\ \A i \in 1..Len(SortedKeys) :
              LET val == Val(response)[SortedKeys[i]]
              IN  val # None =>
                      /\ Contains(LastMessage, SortedKeys[i])
                      /\ Val(val).t = "str" => IsInfix(Val(val).s, LastMessage)

\* the part of C18 that the code keeps: the message holds the result kind,
\* the submitted code, and every key whose value is a non-empty string
C18_TruthyPayload ==
    (Responded /\ mail # <<>>) =>
        /\ Contains(LastMessage, ResponseResult)
        /\ IsInfix(Val(answer_data).answer, LastMessage)
        /\ \A i \in 1..Len(SortedKeys) :
              LET val == Val(response)[SortedKeys[i]]
              IN  (val # None /\ Truthy(Val(val))) =>
                      /\ Contains(LastMessage, SortedKeys[i])
                      /\ IsInfix(Val(val).s, LastMessage)

\* the matchers that give the answer the greatest score and have a
\* canonical text
BestWithText(matchers, answer) ==
    {i \in 1..Len(matchers) :
        /\ MatcherGrade(matchers[i], answer) = MaxScore(matchers, answer)
        /\ MatcherCorrectAnswerText(matchers[i]) # None}

\* the first matcher, in authoring order, that has a canonical text
FirstWithText(matchers) ==
    CHOOSE i \in 1..Len(matchers) :
        /\ MatcherCorrectAnswerText(matchers[i]) # None
        /\ \A j \in 1..(i - 1) : MatcherCorrectAnswerText(matchers[j]) = None

\* the correct answer shown is built from the canonical text of matcher i
ShowsTextOf(matchers, i) ==
    LastOutcome.correct_answer =
        Some(CA_PATTERN(Val(MatcherCorrectAnswerText(matchers[i]))))

\* C19: with an answer present, the correct-answer text shown is that of a
\* matcher with the greatest score and a canonical text; when no such
\* matcher exists it is that of the first matcher with a canonical text;
\* it is never empty or missing.
C19_CorrectAnswerText ==
    (IsText /\ Graded /\ answer_data # None) =>
        LET best == BestWithText(page.matchers, Val(answer_data).answer)
        IN  /\ IsFeedback(LastOutcome)
            /\ LastOutcome.correct_answer # None
            /\ LastOutcome.correct_answer # Some(CA_PATTERN(<<>>))
            /\ best # {} => \E i \in best : ShowsTextOf(page.matchers, i)
            /\ best = {} =>
                  ShowsTextOf(page.matchers, FirstWithText(page.matchers))

\* C19 holds of every text question whose first matcher with a canonical
\* text has a non-empty one.
C19_CorrectAnswerTextElsewhere ==
    (/\ IsText /\ Graded /\ answer_data # None
     /\ UnspecCorrectAnswerText(page.matchers) # Some(<<>>)) =>
        LET best == BestWithText(page.matchers, Val(answer_data).answer)
        IN  /\ IsFeedback(LastOutcome)
            /\ LastOutcome.correct_answer # None
            /\ LastOutcome.correct_answer # Some(CA_PATTERN(<<>>))
            /\ best # {} => \E i \in best : ShowsTextOf(page.matchers, i)
            /\ best = {} =>
                  ShowsTextOf(page.matchers, FirstWithText(page.matchers))

\* the fallback of C19 happens: the regex matcher scores 1 and has no text,
\* the text shown is the plain matcher's
C19_Fallback ==
    /\ IsText /\ Graded /\ IsFeedback(LastOutcome)
    /\ page_desc.answers = <<Strict("regex", <<"c", ".", "t">>),
                             Strict("plain", <<"c", "a", "t">>)>>
    /\ answer_data = Some(Answer(<<"c", "u", "t">>, 0))
    /\ LastOutcome.correctness = Some(Unit)
    /\ LastOutcome.correct_answer = Some(CA_PATTERN(<<"c", "a", "t">>))

\* the question has a matcher of a case-sensitive kind
HasCaseSensitiveKind ==
    \E i \in 1..Len(page_desc.answers) :
        KindOf(page_desc.answers[i])
            \in {"case_sens_plain", "case_sens_regex", "sym_expr"}

\* C20: the normalized answer a text question records is the answer in
\* lower case when no matcher is case-sensitive, and the answer unchanged
\* when one is, whichever matcher gave the score.
C20_NormalizedAnswer ==
    (IsText /\ Graded /\ answer_data # None /\ IsFeedback(LastOutcome)) =>
        LET answer == Val(answer_data).answer
        IN  LastOutcome.normalized_answer =
                NormText(IF HasCaseSensitiveKind THEN answer
                         ELSE [i \in 1..Len(answer) |-> LowerChar(answer[i])])

C20_Witness ==
    /\ IsText /\ Graded /\ IsFeedback(LastOutcome)
    /\ page_desc.answers = <<Strict("plain", <<"c", "a", "t">>),
                             Strict("case_sens_plain", <<"C", "a", "t">>)>>
    /\ answer_data = Some(Answer(<<"C", "A", "t">>, 0))
    /\ LastOutcome.correctness = Some(Unit)
    /\ LastOutcome.normalized_answer = NormText(<<"C", "A", "t">>)

\* without a case-sensitive matcher the answer is recorded in lower case
C20_Lowered ==
    /\ IsText /\ Graded /\ IsFeedback(LastOutcome)
    /\ page_desc.answers = <<Strict("plain", <<"C", "a", "t">>)>>
    /\ answer_data = Some(Answer(<<"C", "A", "t">>, 0))
    /\ LastOutcome.normalized_answer = NormText(<<"c", "a", "t">>)

\* the opening of each section of a code question's feedback after the
\* sentence, in order: points, feedback list, traceback, stdout, stderr
SectionMarks ==
    <<"<p><b>",
      "<p>Here is some feedback on your code:<ul>",
      "<p>This is the exception traceback:<pre>",
      "<p>Your code printed the following output:<pre>",
      "<p>Your code printed the following error messages:<pre>">>

\* the sentences that explain a result kind
Sentences == {APOLOGY, COMPILE_FAILED, EXCEPTION_FAILED}

\* the sentence that explains a result kind other than success
SentenceOf(kind) ==
    IF kind = "user_compile_error" THEN COMPILE_FAILED
    ELSE IF kind = "user_error" THEN EXCEPTION_FAILED
    ELSE APOLOGY

Positions(text, atom) == {i \in 1..Len(text) : text[i] = atom}

\* the field of the response is present and not empty
NonEmpty(field) == field # None /\ Val(field).s # <<>>

\* the block of a string field: its opening, the escaped value, its closing
Block(mark, field) ==
    <<mark>> \o html_escape(Val(field).s) \o <<"</pre></p>">>

\* C21: the feedback text of a code question is, in this order, the
\* sentence of the result kind, the points summary iff points is present,
\* and the feedback list, the traceback, the output and the error messages,
\* each iff present and not empty; no section appears twice.
C21_FeedbackOrder ==
    (Responded /\ Graded /\ IsFeedback(LastOutcome)) =>
        LET text == LastOutcome.feedback
            r == Val(response)
            present == <<r.points # None, NonEmpty(r.feedback),
                         NonEmpty(r.traceback), NonEmpty(r.stdout),
                         NonEmpty(r.stderr)>>
            marks(k) == Positions(text, SectionMarks[k])
        IN  /\ \A k \in 1..Len(SectionMarks) :
                  Cardinality(marks(k)) = IF present[k] THEN 1 ELSE 0
            /\ \A k, l \in 1..Len(SectionMarks) :
                  k < l => \A i \in marks(k) : \A j \in marks(l) : i < j
            /\ IF ResponseResult = "success"
               THEN \A i \in 1..Len(text) : text[i] \notin Sentences
               ELSE /\ text[1] = SentenceOf(ResponseResult)
                    /\ \A i \in 2..Len(text) : text[i] \notin Sentences
            /\ present[1] =>
                  IsInfix(<<"<p><b>">>
                            \o get_auto_feedback(LastOutcome.correctness)
                            \o <<"</b></p>">>, text)
            /\ present[2] =>
                  \A n \in 1..Len(Val(r.feedback).s) :
                      IsInfix(<<"<li>", html_escape_char(Val(r.feedback).s[n]),
                                "</li>">>, text)
            /\ present[3] => IsInfix(Block(SectionMarks[3], r.traceback), text)
            /\ present[4] => IsInfix(Block(SectionMarks[4], r.stdout), text)
            /\ present[5] => IsInfix(Block(SectionMarks[5], r.stderr), text)

C21_Witness ==
    /\ Responded /\ Graded /\ IsFeedback(LastOutcome)
    /\ ResponseResult = "user_error"
    /\ Val(response).points = Some(JNum(Unit - 2))
    /\ NonEmpty(Val(response).feedback)
    /\ NonEmpty(Val(response).traceback)
    /\ NonEmpty(Val(response).stdout)
    /\ NonEmpty(Val(response).stderr)
    /\ \A k \in 1..Len(SectionMarks) :
          Cardinality(Positions(LastOutcome.feedback, SectionMarks[k])) = 1

\* the request just handled is a POST with a valid form whose revision
\* validated
ValidatedPost(r) ==
    /\ r.method = "POST"
    /\ r.post # None /\ Val(r.post) # <<>>
    /\ r.validates = "ok"

\* C22: update_course changes the stored active revision only on a POST
\* with a valid form whose new_sha validated, and then to that new_sha; a
\* GET, an invalid form or a failed validation leaves it unchanged, so
\* the active revision is the initial one or one that validated.
C22_ActiveRevisionValidated ==
    [][/\ course' # course =>
             /\ ValidatedPost(Val(request'))
             /\ course'.active_git_commit_sha
                   = encode_utf8(Val(Val(request').post))
       /\ course'.active_git_commit_sha \in validated' \cup {INITIAL_SHA}]_vars

C22_Witness ==
    /\ request # None /\ Val(request).method = "POST"
    /\ Val(request).post = Some(<<"\\u00e9">>)
    /\ Val(request).status = "rendered"
    /\ course.active_git_commit_sha = <<"\\xc3", "\\xa9">>
    /\ <<"a", "1">> \in validated

\* a failed validation leaves the active revision as it was
C22_Refused ==
    /\ request # None /\ Val(request).method = "POST"
    /\ Val(request).post = Some(<<"b", "2">>)
    /\ Val(request).validates = "ValidationError"
    /\ Val(request).messages = <<FAILED_MESSAGE("ValidationError")>>
    /\ course.active_git_commit_sha = <<"a", "1">>

====
